---- MODULE Spec2Model ----
(***************************************************************************)
(* A model of lumeo-backend: the SceneBuilder generate/execute/evaluate    *)
(* loop (src/agents/scene_builder.py), the post-processing that follows it *)
(* in SceneBuilder.generate_scene, and the Modal functions that drive it   *)
(* (src/api/functions.py).                                                 *)
(*                                                                         *)
(* Text is modelled as a sequence of chunks: the empty string is << >>,    *)
(* concatenation is \o, and "marker in text" is "some chunk is the         *)
(* marker".                                                                *)
(***************************************************************************)
EXTENDS Integers, Sequences, FiniteSets, TLC

VARIABLES
    pc,            \* position of generate_scene_function / generate_scene
    node,          \* the graph node that runs next
    state,         \* SceneState, the loop's state
    files,         \* the shared volume: path -> content
    sandbox,       \* the scene's sandbox: "none", "running", "terminated"
    scene,         \* the persisted Scene record (status, code, video_url)
    video_url,     \* generate_scene's local video_url
    callFailed,    \* an external call (model, sandbox, ffmpeg, API) has raised
    genCalls,      \* number of Generator calls made by the run
    execCalls,     \* number of render commands run
    evalCalls,     \* number of Evaluator calls made by the run
    lastGenerated, \* the code text the last Generator call produced
    markers,       \* per execute step: did its stdout hold the marker
    embedInput,    \* content of the video path when embedding was invoked
    lpc,           \* position of generate_lecture_function
    slides,        \* number of slides of the lecture plan
    sceneTable,    \* the scenes table: the rows of the planned scenes
    lecture,       \* the persisted Lecture record
    created,       \* generate_lecture_function's list "scenes"
    pending,       \* ids of the scene tasks of starmap still running
    results,       \* what starmap has yielded so far
    generated_scenes, \* generate_lecture_function's list "generated_scenes"
    mpc,           \* position of merge_scenes_function
    video_paths,   \* merge_scenes_function's list "video_paths"
    concatInput,   \* the list merge_videos was handed
    msandbox,      \* the merge's sandbox
    regen,         \* the scenes table: the rows the regenerate endpoint added,
                   \* each with the position of its regenerate_scene_function
    runs,          \* two concurrent SceneBuilder runs: scene id, writes done
    written,       \* the writes to the shared volume: <<path, run>>
    xpc,           \* position inside _execute_scene
    render,        \* the render process of the last sandbox.exec, and its outcome
    genInput,      \* the variables the last Generator call was invoked with
    noplan,        \* position of generate_lecture_no_plan_function
    merges,        \* two concurrent merge_scenes_function calls: lecture id, writes done
    mwritten,      \* their writes to the shared volume: <<path, merge>>
    lgnode,        \* legacy SceneBuilder (src/scene_builder.py): the node to run next
    lgstate        \* legacy SceneBuilder: the graph state

svars == <<pc, node, state, files, sandbox, scene, video_url, callFailed,
           genCalls, execCalls, evalCalls, lastGenerated, markers, embedInput>>

lvars == <<lpc, slides, sceneTable, lecture, created, pending, results,
           generated_scenes, mpc, video_paths, concatInput, msandbox, regen>>

wvars == <<runs, written>>

xvars == <<xpc, render, genInput>>

ovars == <<noplan>>

mvars == <<merges, mwritten>>

gvars == <<lgnode, lgstate>>

vars == <<pc, node, state, files, sandbox, scene, video_url, callFailed,
          genCalls, execCalls, evalCalls, lastGenerated, markers, embedInput,
          lpc, slides, sceneTable, lecture, created, pending, results,
          generated_scenes, mpc, video_paths, concatInput, msandbox, regen,
          runs, written, xpc, render, genInput, noplan,
          merges, mwritten, lgnode, lgstate>>

(***************************************************************************)
(* Program constants.                                                      *)
(***************************************************************************)
RetryCap == 5
FinishCap == 5
SuccessMarker == "File ready at"
NoneSentinel == <<"None">>

FINISH == "finish"
RETRY == "retry"
Decision == {FINISH, RETRY}
NoEvaluation == "absent"

PROCESSING == "processing"
COMPLETED == "completed"
FAILED == "failed"

SceneId == 1
NoFile == <<"<no file>">>
Placeholder == <<"<empty video>">>
Coroutine == <<"<coroutine object upload_file>">>
NoUrl == <<"<null>">>

(***************************************************************************)
(* Paths on the shared volume, all derived from the scene id.             *)
(***************************************************************************)
scene_file_path(id) == <<"/data/scene_", id, ".py">>
scene_video_path(id) == <<"/data/scene_", id, ".mp4">>
\* Mutant: the audio is written to the path of one fixed scene.
scene_audio_path_shared(id) == <<"/data/scene_", SceneId, ".mp3">>

scene_audio_path(id) == <<"/data/scene_", id, ".mp3">>
scene_subtitles_path(id) == <<"/data/scene_", id, ".vtt">>
full_video_path(id) == <<"/data/scene_", id, "_full.mp4">>

\* temp_output = output_path + ".temp.mp4"
temp_output(path) == path \o <<".temp.mp4">>

ScenePaths ==
    {scene_file_path(SceneId), scene_video_path(SceneId), scene_audio_path(SceneId),
     scene_subtitles_path(SceneId), full_video_path(SceneId)}

(***************************************************************************)
(* What the collaborators can answer.                                      *)
(***************************************************************************)
\* The Generator's structured answer (SceneCode): imports and scene_code.
SceneCode ==
    [imports : {"from manim import *"}, scene_code : {"class A(Scene)", "class B(Scene)"}]

\* The render command's streams (messages, then None at end of stream), and
\* whether a file appeared at the output path.
StreamEnd == "<None>"
Renders ==
    { [stdout |-> <<"INFO", SuccessMarker, StreamEnd>>, stderr |-> <<StreamEnd>>,
       wrote |-> TRUE],
      [stdout |-> <<SuccessMarker, StreamEnd>>, stderr |-> <<"Warning", StreamEnd>>,
       wrote |-> FALSE],
      [stdout |-> <<"INFO", StreamEnd>>, stderr |-> <<"Traceback", StreamEnd>>,
       wrote |-> FALSE],
      [stdout |-> <<StreamEnd>>, stderr |-> <<StreamEnd>>, wrote |-> FALSE] }

\* No render command has been run yet: both streams are at their end.
NoRender == [stdout |-> <<StreamEnd>>, stderr |-> <<StreamEnd>>, wrote |-> FALSE]

\* read(stream): the messages up to the first None, concatenated.
RECURSIVE read(_)
read(stream) ==
    IF stream = << >> \/ Head(stream) = StreamEnd
    THEN << >>
    ELSE <<Head(stream)>> \o read(Tail(stream))

\* "File ready at" in text
Contains(marker, text) == \E i \in 1..Len(text) : text[i] = marker

(***************************************************************************)
(* SceneBuilder: the nodes' state updates and the two routing functions.   *)
(***************************************************************************)
InitialState(topic, voiceover, description, id) ==
    [lecture_topic |-> topic, scene_voiceover |-> voiceover,
     scene_description |-> description, scene_code |-> << >>, output |-> << >>,
     error |-> << >>, iterations |-> 0, scene_id |-> id, evaluation |-> NoEvaluation]

\* Mutant: the Generator is never told the previous error.
generator_input_fresh(st) ==
    [lecture_topic |-> st.lecture_topic, scene_voiceover |-> st.scene_voiceover,
     scene_description |-> st.scene_description, previous_error |-> << >>,
     iterations |-> st.iterations, previous_scene_code |-> st.scene_code]

\* The variables chain.invoke is given by _generate_scene.
generator_input(st) ==
    [lecture_topic |-> st.lecture_topic, scene_voiceover |-> st.scene_voiceover,
     scene_description |-> st.scene_description, previous_error |-> st.error,
     iterations |-> st.iterations, previous_scene_code |-> st.scene_code]

\* Mutant: the attempt is not counted.
generate_result_uncounted(st, sc) ==
    [st EXCEPT !.scene_code = <<sc.imports, "\n\n", sc.scene_code>>]

\* Mutant: the new code is not stored in the state.
generate_result_stale(st, sc) ==
    [st EXCEPT !.iterations = st.iterations + 1]

generate_result(st, sc) ==
    [st EXCEPT !.scene_code = <<sc.imports, "\n\n", sc.scene_code>>,
               !.iterations = st.iterations + 1]

\* Mutant: an empty stderr is stored as it is.
execute_result_raw_error(st, res) ==
    [st EXCEPT !.output = read(res.stdout), !.error = read(res.stderr)]

execute_result(st, res) ==
    LET output == read(res.stdout)
        error == read(res.stderr)
    IN [st EXCEPT !.output = output,
                  !.error = IF error # << >> THEN error ELSE NoneSentinel]

\* Mutant: the decision is stored over the scene description.
evaluate_result_overwrites(st, decision) ==
    [st EXCEPT !.evaluation = decision, !.scene_description = decision]

evaluate_result(st, decision) == [st EXCEPT !.evaluation = decision]

finish_result(st) == st

\* Mutant: the cap is tested with > instead of >=.
should_retry_off_by_one(st) ==
    LET has_error == ~Contains(SuccessMarker, st.output)
    IN IF st.iterations > RetryCap THEN "evaluate"
       ELSE IF has_error THEN "generate"
       ELSE "evaluate"

\* Mutant: success is read from stderr instead of the marker in stdout.
should_retry_by_stderr(st) ==
    LET has_error == st.error # NoneSentinel
    IN IF st.iterations >= RetryCap THEN "evaluate"
       ELSE IF has_error THEN "generate"
       ELSE "evaluate"

\* Mutant: at the cap, a failed render is retried once more.
should_retry_cap_after_error(st) ==
    LET has_error == ~Contains(SuccessMarker, st.output)
    IN IF has_error /\ st.iterations <= RetryCap THEN "generate"
       ELSE "evaluate"

\* Mutant: at the cap the loop leaves execute for finish.
should_retry_force_finish(st) ==
    LET has_error == ~Contains(SuccessMarker, st.output)
    IN IF st.iterations >= RetryCap THEN "finish"
       ELSE IF has_error THEN "generate"
       ELSE "evaluate"

should_retry(st) ==
    LET has_error == ~Contains(SuccessMarker, st.output)
    IN IF st.iterations >= RetryCap THEN "evaluate"
       ELSE IF has_error THEN "generate"
       ELSE "evaluate"

\* Mutant: the cap is left to the Evaluator's prompt alone.
should_finish_no_cap(st) ==
    IF st.evaluation = FINISH THEN "finish" ELSE "generate"

\* Mutant: below the cap the loop always goes on.
should_finish_ignores_decision(st) ==
    IF st.iterations >= FinishCap THEN "finish" ELSE "generate"

should_finish(st) ==
    IF st.iterations >= FinishCap THEN "finish"
    ELSE IF st.evaluation = FINISH THEN "finish"
    ELSE "generate"

(***************************************************************************)
(* Post-processing helpers of SceneBuilder.generate_scene.                 *)
(***************************************************************************)
\* create_empty_video(path): a placeholder video appears at path.
create_empty_video(fs, path) == [fs EXCEPT ![path] = Placeholder]

\* Mutant: no fallback video is created.
video_fallback_skip(fs, path) == fs

\* if not os.path.exists(scene_video_path): create_empty_video(scene_video_path)
video_fallback(fs, path) ==
    IF fs[path] = NoFile THEN create_empty_video(fs, path) ELSE fs

\* StorageClient.upload_file is declared "async def" and is called without
\* await: the call returns a coroutine object and runs none of its body.
upload_file(fs, path) == Coroutine

\* Mutant: every value can be sent.
JsonSerializable_any(v) == TRUE

\* Repository.update sends its data as JSON; a coroutine object is not
\* JSON-serialisable.
JsonSerializable(v) == v # Coroutine

\* SceneRepository.list_by_lecture is declared "async def" and is called
\* without await: the call returns a coroutine object, whatever the table holds.
list_by_lecture(table) == Coroutine

\* map(f, x) and "for s in x" raise TypeError when x is a coroutine object.
Iterable(v) == v # Coroutine

(***************************************************************************)
(* generate_scene_function and SceneBuilder.generate_scene, one scene.     *)
(***************************************************************************)
SceneInit ==
    /\ pc = "start"
    /\ node = "none"
    /\ state = InitialState("topic", "voiceover", "description", SceneId)
    /\ files = [p \in ScenePaths |-> NoFile]
    /\ sandbox = "none"
    /\ scene = [status |-> PROCESSING, code |-> << >>, video_url |-> NoUrl]
    /\ video_url = NoUrl
    /\ callFailed = FALSE
    /\ genCalls = 0
    /\ execCalls = 0
    /\ evalCalls = 0
    /\ lastGenerated = << >>
    /\ markers = << >>
    /\ embedInput = << >>
    /\ xpc = "write"
    /\ render = [status |-> "none", res |-> NoRender]
    /\ genInput = generator_input(InitialState("topic", "voiceover", "description", SceneId))

\* Mutant: a failed call is swallowed and the step is taken again.
Raise_absorbed ==
    /\ pc' = pc
    /\ callFailed' = TRUE

\* An external call raises: control goes to generate_scene_function's handler.
Raise ==
    /\ pc' = "except"
    /\ callFailed' = TRUE

\* modal.Sandbox.create, SceneBuilder(sandbox), build_graph, compile, invoke.
create_sandbox ==
    /\ pc = "start"
    /\ \E ok \in BOOLEAN :
          IF ok
          THEN /\ sandbox' = "running"
               /\ pc' = "loop"
               /\ node' = "generate"
               /\ UNCHANGED callFailed
          ELSE /\ Raise
               /\ UNCHANGED <<sandbox, node>>
    /\ UNCHANGED <<state, files, scene, video_url, genCalls, execCalls, evalCalls,
                   lastGenerated, markers, embedInput>>
    /\ UNCHANGED lvars
    /\ UNCHANGED wvars
    /\ UNCHANGED xvars
    /\ UNCHANGED ovars
    /\ UNCHANGED mvars
    /\ UNCHANGED gvars

\* Node "generate" and its edge to "execute".
generate_scene_node ==
    /\ pc = "loop"
    /\ node = "generate"
    /\ genInput' = generator_input(state)
    /\ \E ok \in BOOLEAN :
          IF ok
          THEN \E sc \in SceneCode :
                  /\ state' = generate_result(state, sc)
                  /\ lastGenerated' = <<sc.imports, "\n\n", sc.scene_code>>
                  /\ genCalls' = genCalls + 1
                  /\ node' = "execute"
                  /\ UNCHANGED <<pc, callFailed>>
          ELSE /\ Raise
               /\ genCalls' = genCalls + 1
               /\ UNCHANGED <<state, lastGenerated, node>>
    /\ UNCHANGED <<files, sandbox, scene, video_url, execCalls, evalCalls, markers,
                   embedInput, xpc, render>>
    /\ UNCHANGED lvars
    /\ UNCHANGED wvars
    /\ UNCHANGED ovars
    /\ UNCHANGED mvars
    /\ UNCHANGED gvars

\* Node "execute", first statement: the code is written to the scene's file.
write_scene_file ==
    /\ pc = "loop"
    /\ node = "execute"
    /\ xpc = "write"
    /\ \E ok \in BOOLEAN :
          IF ok
          THEN /\ files' = [files EXCEPT ![scene_file_path(state.scene_id)] =
                                            state.scene_code]
               /\ xpc' = "exec"
               /\ UNCHANGED <<pc, callFailed>>
          ELSE /\ Raise
               /\ UNCHANGED <<files, xpc>>
    /\ UNCHANGED <<node, state, sandbox, scene, video_url, genCalls, execCalls,
                   evalCalls, lastGenerated, markers, embedInput, render, genInput>>
    /\ UNCHANGED lvars
    /\ UNCHANGED wvars
    /\ UNCHANGED ovars
    /\ UNCHANGED mvars
    /\ UNCHANGED gvars

\* result = self.sandbox.exec("manim", "render", ...): the command is started
\* and a handle to the running process is returned; exec does not wait.
exec_render ==
    /\ pc = "loop"
    /\ node = "execute"
    /\ xpc = "exec"
    /\ \E ok \in BOOLEAN :
          IF ok
          THEN /\ render' = [status |-> "running", res |-> NoRender]
               /\ xpc' = "commit"
               /\ UNCHANGED <<pc, callFailed>>
          ELSE /\ Raise
               /\ UNCHANGED <<render, xpc>>
    /\ UNCHANGED <<node, state, files, sandbox, scene, video_url, genCalls, execCalls,
                   evalCalls, lastGenerated, markers, embedInput, genInput>>
    /\ UNCHANGED lvars
    /\ UNCHANGED wvars
    /\ UNCHANGED ovars
    /\ UNCHANGED mvars
    /\ UNCHANGED gvars

\* The render process ends in the sandbox: its streams reach their end, and
\* a successful render has left its file at the output path.
render_ends ==
    /\ render.status = "running"
    /\ \E res \in Renders :
          /\ render' = [status |-> "done", res |-> res]
          /\ files' = [files EXCEPT ![scene_video_path(state.scene_id)] =
                          IF res.wrote THEN state.scene_code ELSE @]
    /\ UNCHANGED <<pc, node, state, sandbox, scene, video_url, callFailed, genCalls,
                   execCalls, evalCalls, lastGenerated, markers, embedInput, xpc,
                   genInput>>
    /\ UNCHANGED lvars
    /\ UNCHANGED wvars
    /\ UNCHANGED ovars
    /\ UNCHANGED mvars
    /\ UNCHANGED gvars

\* vol.commit(), the statement after sandbox.exec.
commit_volume ==
    /\ pc = "loop"
    /\ node = "execute"
    /\ xpc = "commit"
    /\ \E ok \in BOOLEAN :
          IF ok
          THEN /\ xpc' = "read"
               /\ UNCHANGED <<pc, callFailed>>
          ELSE /\ Raise
               /\ UNCHANGED xpc
    /\ UNCHANGED <<node, state, files, sandbox, scene, video_url, genCalls, execCalls,
                   evalCalls, lastGenerated, markers, embedInput, render, genInput>>
    /\ UNCHANGED lvars
    /\ UNCHANGED wvars
    /\ UNCHANGED ovars
    /\ UNCHANGED mvars
    /\ UNCHANGED gvars

\* read(result.stdout), read(result.stderr), which return at the end of the
\* streams, the node's return value, and the conditional edge _should_retry.
execute_scene_node ==
    /\ pc = "loop"
    /\ node = "execute"
    /\ xpc = "read"
    /\ render.status = "done"
    /\ \E ok \in BOOLEAN :
          IF ok
          THEN /\ state' = execute_result(state, render.res)
               /\ node' = should_retry(state')
               /\ execCalls' = execCalls + 1
               /\ markers' = Append(markers,
                                    Contains(SuccessMarker, read(render.res.stdout)))
               /\ xpc' = "write"
               /\ UNCHANGED <<pc, callFailed>>
          ELSE /\ Raise
               /\ UNCHANGED <<state, node, execCalls, markers, xpc>>
    /\ UNCHANGED <<files, sandbox, scene, video_url, genCalls, evalCalls,
                   lastGenerated, embedInput, render, genInput>>
    /\ UNCHANGED lvars
    /\ UNCHANGED wvars
    /\ UNCHANGED ovars
    /\ UNCHANGED mvars
    /\ UNCHANGED gvars

\* Node "evaluate" and the conditional edge _should_finish.
evaluate_execution_node ==
    /\ pc = "loop"
    /\ node = "evaluate"
    /\ \E ok \in BOOLEAN :
          IF ok
          THEN \E d \in Decision :
                  /\ state' = evaluate_result(state, d)
                  /\ node' = should_finish(state')
                  /\ UNCHANGED <<pc, callFailed>>
          ELSE /\ Raise
               /\ UNCHANGED <<state, node>>
    /\ evalCalls' = evalCalls + 1
    /\ UNCHANGED <<files, sandbox, scene, video_url, genCalls, execCalls,
                   lastGenerated, markers, embedInput>>
    /\ UNCHANGED lvars
    /\ UNCHANGED wvars
    /\ UNCHANGED xvars
    /\ UNCHANGED ovars
    /\ UNCHANGED mvars
    /\ UNCHANGED gvars

\* Node "finish", the graph's finish point; invoke returns the state.
finish_node ==
    /\ pc = "loop"
    /\ node = "finish"
    /\ state' = finish_result(state)
    /\ node' = "END"
    /\ pc' = "check_video"
    /\ UNCHANGED <<files, sandbox, scene, video_url, callFailed, genCalls, execCalls,
                   evalCalls, lastGenerated, markers, embedInput>>
    /\ UNCHANGED lvars
    /\ UNCHANGED wvars
    /\ UNCHANGED xvars
    /\ UNCHANGED ovars
    /\ UNCHANGED mvars
    /\ UNCHANGED gvars

\* The fallback to an empty video when no render left a file.
check_video ==
    /\ pc = "check_video"
    /\ files' = video_fallback(files, scene_video_path(SceneId))
    /\ pc' = "audio"
    /\ UNCHANGED <<node, state, sandbox, scene, video_url, callFailed, genCalls,
                   execCalls, evalCalls, lastGenerated, markers, embedInput>>
    /\ UNCHANGED lvars
    /\ UNCHANGED wvars
    /\ UNCHANGED xvars
    /\ UNCHANGED ovars
    /\ UNCHANGED mvars
    /\ UNCHANGED gvars

generate_audio ==
    /\ pc = "audio"
    /\ \E ok \in BOOLEAN :
          IF ok
          THEN /\ files' = [files EXCEPT ![scene_audio_path(SceneId)] = <<"mp3">>]
               /\ pc' = "subtitles"
               /\ UNCHANGED callFailed
          ELSE /\ Raise
               /\ UNCHANGED files
    /\ UNCHANGED <<node, state, sandbox, scene, video_url, genCalls, execCalls,
                   evalCalls, lastGenerated, markers, embedInput>>
    /\ UNCHANGED lvars
    /\ UNCHANGED wvars
    /\ UNCHANGED xvars
    /\ UNCHANGED ovars
    /\ UNCHANGED mvars
    /\ UNCHANGED gvars

generate_subtitles ==
    /\ pc = "subtitles"
    /\ \E ok \in BOOLEAN :
          IF ok /\ files[scene_audio_path(SceneId)] # NoFile
          THEN /\ files' = [files EXCEPT ![scene_subtitles_path(SceneId)] = <<"vtt">>]
               /\ pc' = "embed"
               /\ UNCHANGED callFailed
          ELSE /\ Raise
               /\ UNCHANGED files
    /\ UNCHANGED <<node, state, sandbox, scene, video_url, genCalls, execCalls,
                   evalCalls, lastGenerated, markers, embedInput>>
    /\ UNCHANGED lvars
    /\ UNCHANGED wvars
    /\ UNCHANGED xvars
    /\ UNCHANGED ovars
    /\ UNCHANGED mvars
    /\ UNCHANGED gvars

\* embed_audio_and_subtitles_new: ffmpeg muxes video, audio and subtitles.
embed_audio_and_subtitles_new ==
    /\ pc = "embed"
    /\ embedInput' = files[scene_video_path(SceneId)]
    /\ \E ok \in BOOLEAN :
          IF ok /\ files[scene_video_path(SceneId)] # NoFile
          THEN /\ files' = [files EXCEPT
                     ![full_video_path(SceneId)] = files[scene_video_path(SceneId)]]
               /\ pc' = "upload"
               /\ UNCHANGED callFailed
          ELSE /\ Raise
               /\ UNCHANGED files
    /\ UNCHANGED <<node, state, sandbox, scene, video_url, genCalls, execCalls,
                   evalCalls, lastGenerated, markers>>
    /\ UNCHANGED lvars
    /\ UNCHANGED wvars
    /\ UNCHANGED xvars
    /\ UNCHANGED ovars
    /\ UNCHANGED mvars
    /\ UNCHANGED gvars

upload_scene_video ==
    /\ pc = "upload"
    /\ video_url' = upload_file(files, full_video_path(SceneId))
    /\ pc' = "update"
    /\ UNCHANGED <<node, state, files, sandbox, scene, callFailed, genCalls, execCalls,
                   evalCalls, lastGenerated, markers, embedInput>>
    /\ UNCHANGED lvars
    /\ UNCHANGED wvars
    /\ UNCHANGED xvars
    /\ UNCHANGED ovars
    /\ UNCHANGED mvars
    /\ UNCHANGED gvars

\* scene_repository.update(COMPLETED, code, video_url) and vol.commit(); on
\* return generate_scene_function terminates the sandbox and returns the
\* scene.  Each of the three calls may raise.
update_completed ==
    /\ pc = "update"
    /\ IF JsonSerializable(video_url)
       THEN \E outcome \in {"returned", "update_raised", "commit_raised",
                             "terminate_raised"} :
               CASE outcome = "returned" ->
                      /\ scene' = [status |-> COMPLETED, code |-> state.scene_code,
                                   video_url |-> video_url]
                      /\ sandbox' = "terminated"
                      /\ pc' = "returned"
                      /\ UNCHANGED callFailed
                 [] outcome = "update_raised" ->
                      /\ Raise
                      /\ UNCHANGED <<scene, sandbox>>
                 [] OTHER ->
                      /\ scene' = [status |-> COMPLETED, code |-> state.scene_code,
                                   video_url |-> video_url]
                      /\ Raise
                      /\ UNCHANGED sandbox
       ELSE /\ pc' = "except"
            /\ UNCHANGED <<scene, sandbox, callFailed>>
    /\ UNCHANGED <<node, state, files, video_url, genCalls, execCalls, evalCalls,
                   lastGenerated, markers, embedInput>>
    /\ UNCHANGED lvars
    /\ UNCHANGED wvars
    /\ UNCHANGED xvars
    /\ UNCHANGED ovars
    /\ UNCHANGED mvars
    /\ UNCHANGED gvars

\* Mutant: the handler re-raises without recording the failure.
failed_update_missing(sc) == sc

\* scene_repo.update(scene.id, {"status": SceneStatus.FAILED})
failed_update(sc) == [sc EXCEPT !.status = FAILED]

\* except Exception: scene_repo.update(scene.id, {"status": FAILED}); raise.
\* When the update itself raises, its exception leaves the handler instead.
mark_failed ==
    /\ pc = "except"
    /\ \E ok \in BOOLEAN :
          IF ok
          THEN /\ scene' = failed_update(scene)
               /\ pc' = "raised"
               /\ UNCHANGED callFailed
          ELSE /\ pc' = "handler_raised"
               /\ callFailed' = TRUE
               /\ UNCHANGED scene
    /\ UNCHANGED <<node, state, files, sandbox, video_url, genCalls, execCalls,
                   evalCalls, lastGenerated, markers, embedInput>>
    /\ UNCHANGED lvars
    /\ UNCHANGED wvars
    /\ UNCHANGED xvars
    /\ UNCHANGED ovars
    /\ UNCHANGED mvars
    /\ UNCHANGED gvars

SceneNext ==
    \/ create_sandbox
    \/ generate_scene_node
    \/ write_scene_file
    \/ exec_render
    \/ render_ends
    \/ commit_volume
    \/ execute_scene_node
    \/ evaluate_execution_node
    \/ finish_node
    \/ check_video
    \/ generate_audio
    \/ generate_subtitles
    \/ embed_audio_and_subtitles_new
    \/ upload_scene_video
    \/ update_completed
    \/ mark_failed

(***************************************************************************)
(* Lecture assembly: generate_lecture_function, merge_scenes_function, the *)
(* regenerate-scene endpoint and regenerate_scene_function.  Each Modal    *)
(* function is modelled from its own body; what a remote call to           *)
(* generate_scene_function yields is drawn from what its signature allows: *)
(* the updated Scene, or an exception.                                     *)
(***************************************************************************)
MaxSlides == 3
MaxRegens == 1

DRAFT == "draft"

\* Row ids are opaque keys the database hands out; the rows of the planned
\* scenes and the rows the regenerate endpoint adds are named apart.
PlannedId(index) == index
RegeneratedId(k) == MaxSlides + k

\* The i-th slide of the plan the planner returned.
Slide(i) == [description |-> <<"description of slide", i>>,
             voiceover |-> <<"voiceover of slide", i>>]

LectureId == "lecture"

\* Mutant: the scenes are numbered from 0.
new_scene_zero_based(i, slide) ==
    [id |-> PlannedId(i), lecture_id |-> LectureId, index |-> i - 1, version |-> 1,
     status |-> PROCESSING, description |-> slide.description,
     voiceover |-> slide.voiceover, video_url |-> NoUrl]

\* Scene(..., status=PROCESSING, index=i, version=1, description=..., voiceover=...)
\* as scene_repo.create returns it, with the id the database gave it.
new_scene(i, slide) ==
    [id |-> PlannedId(i), lecture_id |-> LectureId, index |-> i, version |-> 1,
     status |-> PROCESSING, description |-> slide.description,
     voiceover |-> slide.voiceover, video_url |-> NoUrl]

\* Mutant: the new row keeps the version of the original.
regenerated_scene_same_version(old, id) ==
    [id |-> id, lecture_id |-> old.lecture_id, index |-> old.index,
     version |-> old.version, status |-> PROCESSING,
     description |-> old.description, voiceover |-> old.voiceover,
     video_url |-> NoUrl]

\* The Scene the regenerate endpoint creates from the scene it was given.
regenerated_scene(old, id) ==
    [id |-> id, lecture_id |-> old.lecture_id, index |-> old.index,
     version |-> old.version + 1, status |-> PROCESSING,
     description |-> old.description, voiceover |-> old.voiceover,
     video_url |-> NoUrl]

\* Mutant: an empty list of videos is handed on to the concatenation.
no_videos_ignored(paths) == FALSE

\* if not video_paths: raise ValueError("No videos available to merge")
no_videos(paths) == paths = << >>

SceneIds ==
    {PlannedId(i) : i \in 1..Len(sceneTable)} \cup {RegeneratedId(k) : k \in 1..Len(regen)}

\* scene_repo.get(id), for an id of SceneIds.
SceneRow(id) ==
    IF id \in 1..Len(sceneTable) THEN sceneTable[id] ELSE regen[id - MaxSlides].scene

SceneUrl(id) == <<"scenes/", id, "/video.mp4">>
lecture_full_path(id) == <<"/data/scene_", id, "_full.mp4">>

\* Python's sorted(xs, key=lambda x: x.index): a stable insertion by index.
RECURSIVE InsertByIndex(_, _)
InsertByIndex(sorted, x) ==
    IF sorted = << >> THEN <<x>>
    ELSE IF Head(sorted).index <= x.index
         THEN <<Head(sorted)>> \o InsertByIndex(Tail(sorted), x)
         ELSE <<x>> \o sorted

RECURSIVE sort_by_index(_)
\* Mutant: the list is left in the order the results arrived in.
sort_by_index_missing(xs) == xs

sort_by_index(xs) ==
    IF xs = << >> THEN << >>
    ELSE InsertByIndex(sort_by_index(SubSeq(xs, 1, Len(xs) - 1)), xs[Len(xs)])

\* for res in starmap(...): if isinstance(res, Scene): generated_scenes.append(res)
RECURSIVE collect_scenes(_)
\* Mutant: every result is kept, the failed scenes' too.
collect_scenes_all(rs) == [i \in 1..Len(rs) |-> rs[i].scene]

collect_scenes(rs) ==
    IF rs = << >> THEN << >>
    ELSE IF Head(rs).ok
         THEN <<Head(rs).scene>> \o collect_scenes(Tail(rs))
         ELSE collect_scenes(Tail(rs))

\* merge_scenes_function's loop over scenes: one path per scene with a video.
RECURSIVE merge_video_paths(_)
merge_video_paths(scenes) ==
    IF scenes = << >> THEN << >>
    ELSE IF Head(scenes).video_url = NoUrl
         THEN merge_video_paths(Tail(scenes))
         ELSE <<lecture_full_path(Head(scenes).id)>> \o merge_video_paths(Tail(scenes))

LectureInit ==
    /\ lpc = "plan"
    /\ slides = 0
    /\ sceneTable = << >>
    /\ lecture = [status |-> PROCESSING, title |-> NoUrl, video_url |-> NoUrl,
                  thumbnail_url |-> NoUrl]
    /\ created = << >>
    /\ pending = {}
    /\ results = << >>
    /\ generated_scenes = << >>
    /\ mpc = "idle"
    /\ video_paths = << >>
    /\ concatInput = << >>
    /\ msandbox = "none"
    /\ regen = << >>
    /\ noplan = "idle"

\* Mutant: a failed planner call is passed over and the scene loop runs.
plan_lecture_continues ==
    /\ lpc = "plan"
    /\ \E ok \in BOOLEAN : \E n \in 0..MaxSlides :
          /\ slides' = n
          /\ lecture' = IF ok THEN [lecture EXCEPT !.title = <<"title">>] ELSE lecture
          /\ lpc' = "create"
    /\ UNCHANGED <<sceneTable, created, pending, results, generated_scenes, mpc,
                   video_paths, concatInput, msandbox, regen>>
    /\ UNCHANGED svars
    /\ UNCHANGED wvars
    /\ UNCHANGED xvars
    /\ UNCHANGED ovars
    /\ UNCHANGED mvars
    /\ UNCHANGED gvars

\* planner.plan_lecture and the title update.
plan_lecture ==
    /\ lpc = "plan"
    /\ \E ok \in BOOLEAN :
          IF ok
          THEN /\ \E n \in 0..MaxSlides : slides' = n
               /\ lecture' = [lecture EXCEPT !.title = <<"title">>]
               /\ lpc' = "create"
          ELSE /\ lpc' = "raised"
               /\ UNCHANGED <<slides, lecture>>
    /\ UNCHANGED <<sceneTable, created, pending, results, generated_scenes, mpc,
                   video_paths, concatInput, msandbox, regen>>
    /\ UNCHANGED svars
    /\ UNCHANGED wvars
    /\ UNCHANGED xvars
    /\ UNCHANGED ovars
    /\ UNCHANGED mvars
    /\ UNCHANGED gvars

\* One turn of the loop over the slides: scene_repo.create(Scene(index=i, ...)).
create_scene ==
    /\ lpc = "create"
    /\ Len(created) < slides
    /\ \E ok \in BOOLEAN :
          IF ok
          THEN LET row == new_scene(Len(created) + 1, Slide(Len(created) + 1))
               IN /\ sceneTable' = Append(sceneTable, row)
                  /\ created' = Append(created, row)
                  /\ UNCHANGED lpc
          ELSE /\ lpc' = "raised"
               /\ UNCHANGED <<sceneTable, created>>
    /\ UNCHANGED <<slides, lecture, pending, results, generated_scenes, mpc,
                   video_paths, concatInput, msandbox, regen>>
    /\ UNCHANGED svars
    /\ UNCHANGED wvars
    /\ UNCHANGED xvars
    /\ UNCHANGED ovars
    /\ UNCHANGED mvars
    /\ UNCHANGED gvars

\* generate_scene_function.starmap(...): one task per created scene.
start_scene_tasks ==
    /\ lpc = "create"
    /\ Len(created) = slides
    /\ pending' = {created[i].id : i \in 1..Len(created)}
    /\ lpc' = "starmap"
    /\ UNCHANGED <<slides, sceneTable, lecture, created, results, generated_scenes,
                   mpc, video_paths, concatInput, msandbox, regen>>
    /\ UNCHANGED svars
    /\ UNCHANGED wvars
    /\ UNCHANGED xvars
    /\ UNCHANGED ovars
    /\ UNCHANGED mvars
    /\ UNCHANGED gvars

\* A scene task ends, in any order: it returns the updated Scene or raises
\* (return_exceptions=True hands the exception over as a result).
scene_task_ends ==
    /\ lpc = "starmap"
    /\ \E id \in pending : \E ok \in BOOLEAN :
          LET row == IF ok
                     THEN [sceneTable[id] EXCEPT !.status = COMPLETED,
                                                 !.video_url = SceneUrl(id)]
                     ELSE [sceneTable[id] EXCEPT !.status = FAILED]
          IN /\ sceneTable' = [sceneTable EXCEPT ![id] = row]
             /\ results' = Append(results, [ok |-> ok, scene |-> row])
             /\ pending' = pending \ {id}
    /\ UNCHANGED <<lpc, slides, lecture, created, generated_scenes, mpc, video_paths,
                   concatInput, msandbox, regen>>
    /\ UNCHANGED svars
    /\ UNCHANGED wvars
    /\ UNCHANGED xvars
    /\ UNCHANGED ovars
    /\ UNCHANGED mvars
    /\ UNCHANGED gvars

\* Mutant: the merge is called while scene tasks are still running.
sort_and_call_merge_early ==
    /\ lpc = "starmap"
    /\ generated_scenes' = sort_by_index(collect_scenes(results))
    /\ lpc' = "merge"
    /\ mpc' = "collect"
    /\ UNCHANGED <<slides, sceneTable, lecture, created, pending, results,
                   video_paths, concatInput, msandbox, regen>>
    /\ UNCHANGED svars
    /\ UNCHANGED wvars
    /\ UNCHANGED xvars
    /\ UNCHANGED ovars
    /\ UNCHANGED mvars
    /\ UNCHANGED gvars

\* The results are filtered and sorted, and merge_scenes_function is called.
sort_and_call_merge ==
    /\ lpc = "starmap"
    /\ pending = {}
    /\ generated_scenes' = sort_by_index(collect_scenes(results))
    /\ lpc' = "merge"
    /\ mpc' = "collect"
    /\ UNCHANGED <<slides, sceneTable, lecture, created, pending, results,
                   video_paths, concatInput, msandbox, regen>>
    /\ UNCHANGED svars
    /\ UNCHANGED wvars
    /\ UNCHANGED xvars
    /\ UNCHANGED ovars
    /\ UNCHANGED mvars
    /\ UNCHANGED gvars

\* merge_scenes_function, up to "No videos available to merge": a scene with
\* a video contributes its path, downloading the file when the volume lacks it.
merge_collect_paths ==
    /\ mpc = "collect"
    /\ \E downloads_ok \in BOOLEAN :
          IF downloads_ok \/ merge_video_paths(generated_scenes) = << >>
          THEN /\ video_paths' = merge_video_paths(generated_scenes)
               /\ mpc' = IF no_videos(video_paths') THEN "raised" ELSE "concat"
          ELSE /\ mpc' = "raised"
               /\ UNCHANGED video_paths
    /\ UNCHANGED <<lpc, slides, sceneTable, lecture, created, pending, results,
                   generated_scenes, concatInput, msandbox, regen>>
    /\ UNCHANGED svars
    /\ UNCHANGED wvars
    /\ UNCHANGED xvars
    /\ UNCHANGED ovars
    /\ UNCHANGED mvars
    /\ UNCHANGED gvars

\* Sandbox.create, merge_videos, get_last_frame, sandbox.terminate.
merge_concat ==
    /\ mpc = "concat"
    /\ \E outcome \in {"ok", "no_sandbox", "ffmpeg_failed"} :
          /\ concatInput' = IF outcome = "no_sandbox" THEN concatInput ELSE video_paths
          /\ msandbox' = CASE outcome = "ok" -> "terminated"
                           [] outcome = "no_sandbox" -> "none"
                           [] OTHER -> "running"
          /\ mpc' = IF outcome = "ok" THEN "upload" ELSE "raised"
    /\ UNCHANGED <<lpc, slides, sceneTable, lecture, created, pending, results,
                   generated_scenes, video_paths, regen>>
    /\ UNCHANGED svars
    /\ UNCHANGED wvars
    /\ UNCHANGED xvars
    /\ UNCHANGED ovars
    /\ UNCHANGED mvars
    /\ UNCHANGED gvars

\* The two uploads and lecture_repo.update(video_url, thumbnail_url, DRAFT).
merge_upload_and_update ==
    /\ mpc = "upload"
    /\ LET url == upload_file(files, <<"/data/lecture.mp4">>)
       IN IF JsonSerializable(url)
          THEN \E ok \in BOOLEAN :
                  IF ok
                  THEN /\ lecture' = [lecture EXCEPT !.video_url = url,
                                         !.thumbnail_url = url, !.status = DRAFT]
                       /\ mpc' = "done"
                  ELSE /\ mpc' = "raised"
                       /\ UNCHANGED lecture
          ELSE /\ mpc' = "raised"
               /\ UNCHANGED lecture
    /\ UNCHANGED <<lpc, slides, sceneTable, created, pending, results,
                   generated_scenes, video_paths, concatInput, msandbox, regen>>
    /\ UNCHANGED svars
    /\ UNCHANGED wvars
    /\ UNCHANGED xvars
    /\ UNCHANGED ovars
    /\ UNCHANGED mvars
    /\ UNCHANGED gvars

\* merge_scenes_function.remote returns or raises into generate_lecture_function.
merge_returns ==
    /\ lpc = "merge"
    /\ mpc \in {"done", "raised"}
    /\ lpc' = IF mpc = "done" THEN "done" ELSE "raised"
    /\ UNCHANGED <<slides, sceneTable, lecture, created, pending, results,
                   generated_scenes, mpc, video_paths, concatInput, msandbox, regen>>
    /\ UNCHANGED svars
    /\ UNCHANGED wvars
    /\ UNCHANGED xvars
    /\ UNCHANGED ovars
    /\ UNCHANGED mvars
    /\ UNCHANGED gvars

\* POST /generate/{uid}/scene/{scene_id}: a new row with version + 1, and
\* regenerate_scene_function is spawned for it.
regenerate_endpoint_upto(max) ==
    /\ Len(regen) < max
    /\ \E id \in SceneIds :
          LET row == regenerated_scene(SceneRow(id), RegeneratedId(Len(regen) + 1))
          IN regen' = Append(regen, [scene |-> row, task |-> "spawned"])
    /\ UNCHANGED <<lpc, slides, sceneTable, lecture, created, pending, results,
                   generated_scenes, mpc, video_paths, concatInput, msandbox>>
    /\ UNCHANGED svars
    /\ UNCHANGED wvars
    /\ UNCHANGED xvars
    /\ UNCHANGED ovars
    /\ UNCHANGED mvars
    /\ UNCHANGED gvars

regenerate_endpoint == regenerate_endpoint_upto(MaxRegens)

\* Mutant: a failed generation is passed over and the lecture is merged anew.
regenerate_scene_function_swallows ==
    /\ \E k \in 1..Len(regen) : \E ok \in BOOLEAN :
          /\ regen[k].task = "spawned"
          /\ regen' = [regen EXCEPT ![k] =
                [scene |-> IF ok
                           THEN [regen[k].scene EXCEPT !.status = COMPLETED,
                                    !.video_url = SceneUrl(regen[k].scene.id)]
                           ELSE [regen[k].scene EXCEPT !.status = FAILED],
                 task |-> "merged"]]
    /\ lecture' = [lecture EXCEPT !.status = DRAFT]
    /\ UNCHANGED <<lpc, slides, sceneTable, created, pending, results,
                   generated_scenes, mpc, video_paths, concatInput, msandbox>>
    /\ UNCHANGED svars
    /\ UNCHANGED wvars
    /\ UNCHANGED xvars
    /\ UNCHANGED ovars
    /\ UNCHANGED mvars
    /\ UNCHANGED gvars

\* regenerate_scene_function.  generate_scene_function.remote either raises,
\* which ends the function, or returns the updated scene; then
\* scenes = scene_repo.list_by_lecture(...) is a coroutine object, because
\* list_by_lecture is "async def" and is not awaited, and "for s in scenes"
\* raises TypeError: merge_scenes_function is not called on either path.
regenerate_scene_function ==
    /\ \E k \in 1..Len(regen) : \E ok \in BOOLEAN :
          /\ regen[k].task = "spawned"
          /\ regen' = [regen EXCEPT ![k] =
                [scene |-> IF ok
                           THEN [regen[k].scene EXCEPT !.status = COMPLETED,
                                    !.video_url = SceneUrl(regen[k].scene.id)]
                           ELSE [regen[k].scene EXCEPT !.status = FAILED],
                 task |-> "raised"]]
    /\ UNCHANGED <<lpc, slides, sceneTable, lecture, created, pending, results,
                   generated_scenes, mpc, video_paths, concatInput, msandbox>>
    /\ UNCHANGED svars
    /\ UNCHANGED wvars
    /\ UNCHANGED xvars
    /\ UNCHANGED ovars
    /\ UNCHANGED mvars
    /\ UNCHANGED gvars

(***************************************************************************)
(* Several regenerate requests on one lecture: the endpoint may be called  *)
(* again while earlier regenerate_scene_function calls are still running.  *)
(***************************************************************************)
MaxRequests == 2

regenerate_requests == regenerate_endpoint_upto(MaxRequests)

RegenNext ==
    \/ plan_lecture
    \/ create_scene
    \/ regenerate_requests
    \/ regenerate_scene_function

LectureNext ==
    \/ plan_lecture
    \/ create_scene
    \/ start_scene_tasks
    \/ scene_task_ends
    \/ sort_and_call_merge
    \/ merge_collect_paths
    \/ merge_concat
    \/ merge_upload_and_update
    \/ merge_returns
    \/ regenerate_endpoint
    \/ regenerate_scene_function

(***************************************************************************)
(* Generation without a plan: POST /generate/{uid}/lecture/{lecture_id}    *)
(* spawns generate_lecture_no_plan_function for a lecture whose scenes are *)
(* already in the table.                                                   *)
(***************************************************************************)
\* The endpoint: 404 when the lecture is not found, else the function is spawned.
generate_lecture_endpoint ==
    /\ noplan = "idle"
    /\ \E found \in BOOLEAN : noplan' = IF found THEN "spawned" ELSE "not_found"
    /\ UNCHANGED lvars
    /\ UNCHANGED svars
    /\ UNCHANGED wvars
    /\ UNCHANGED xvars
    /\ UNCHANGED mvars
    /\ UNCHANGED gvars

\* generate_lecture_no_plan_function: the status update, the listing of the
\* lecture's scenes, the starmap over them and the merge of what it returned,
\* in the order it was returned (this function does not sort).
generate_lecture_no_plan_function ==
    /\ noplan = "spawned"
    /\ \E ok \in BOOLEAN :
          IF ok
          THEN /\ lecture' = [lecture EXCEPT !.status = PROCESSING]
               /\ LET scenes == list_by_lecture(sceneTable)
                  IN IF Iterable(scenes)
                     THEN /\ noplan' = "merge_called"
                          /\ concatInput' = merge_video_paths(scenes)
                     ELSE /\ noplan' = "raised"
                          /\ UNCHANGED concatInput
          ELSE /\ noplan' = "update_raised"
               /\ UNCHANGED <<lecture, concatInput>>
    /\ UNCHANGED <<lpc, slides, sceneTable, created, pending, results,
                   generated_scenes, mpc, video_paths, msandbox, regen>>
    /\ UNCHANGED svars
    /\ UNCHANGED wvars
    /\ UNCHANGED xvars
    /\ UNCHANGED mvars
    /\ UNCHANGED gvars

NoPlanNext ==
    \/ plan_lecture
    \/ create_scene
    \/ regenerate_endpoint
    \/ regenerate_scene_function
    \/ generate_lecture_endpoint
    \/ generate_lecture_no_plan_function

(***************************************************************************)
(* The shared volume under two concurrent SceneBuilder runs.  A run writes *)
(* the code file and the render output (_execute_scene, once per attempt), *)
(* the fallback video at the render output's path, the audio, the          *)
(* subtitles, the temporary file of the embedding and the full video.      *)
(***************************************************************************)
MaxSceneIds == 3

\* The paths a run for scene id writes, in the order of their first write.
WrittenPaths(id) ==
    <<scene_file_path(id), scene_video_path(id), scene_audio_path(id),
      scene_subtitles_path(id), temp_output(full_video_path(id)),
      full_video_path(id)>>

VolumeInit ==
    /\ runs = << >>
    /\ written = {}

\* starmap starts the tasks; each is handed a scene record of its own.
start_runs ==
    /\ runs = << >>
    /\ \E a, b \in 1..MaxSceneIds :
          /\ a # b
          /\ runs' = <<[scene_id |-> a, step |-> 0], [scene_id |-> b, step |-> 0]>>
    /\ UNCHANGED written
    /\ UNCHANGED svars
    /\ UNCHANGED lvars
    /\ UNCHANGED xvars
    /\ UNCHANGED ovars
    /\ UNCHANGED mvars
    /\ UNCHANGED gvars

\* One run writes its next file.
run_writes ==
    /\ \E r \in 1..Len(runs) :
          /\ runs[r].step < Len(WrittenPaths(runs[r].scene_id))
          /\ written' = written \cup
                {<<WrittenPaths(runs[r].scene_id)[runs[r].step + 1], r>>}
          /\ runs' = [runs EXCEPT ![r].step = @ + 1]
    /\ UNCHANGED svars
    /\ UNCHANGED lvars
    /\ UNCHANGED xvars
    /\ UNCHANGED ovars
    /\ UNCHANGED mvars
    /\ UNCHANGED gvars

VolumeNext ==
    \/ start_runs
    \/ run_writes

(***************************************************************************)
(* The shared volume under two concurrent merge_scenes_function calls for  *)
(* different lectures.  A merge writes the concat list (merge_videos), the *)
(* merged video, removes the concat list, and writes the last-frame image. *)
(***************************************************************************)
MaxLectureIds == 3

\* concat_file = "/data/concat_list.txt"
concat_file == <<"/data/concat_list.txt">>

merged_video_path(lecture_id) == <<"/data/lecture_", lecture_id, ".mp4">>
last_frame_path(lecture_id) == <<"/data/lecture_", lecture_id, "_last_frame.png">>

\* The paths a merge for lecture_id writes or removes, in order.
MergeWrittenPaths(lecture_id) ==
    <<concat_file, merged_video_path(lecture_id), concat_file,
      last_frame_path(lecture_id)>>

MergeVolumeInit ==
    /\ merges = << >>
    /\ mwritten = {}

\* Two lectures reach their merge at the same time.
start_merges ==
    /\ merges = << >>
    /\ \E a, b \in 1..MaxLectureIds :
          /\ a # b
          /\ merges' = <<[lecture_id |-> a, step |-> 0], [lecture_id |-> b, step |-> 0]>>
    /\ UNCHANGED mwritten
    /\ UNCHANGED svars
    /\ UNCHANGED lvars
    /\ UNCHANGED wvars
    /\ UNCHANGED xvars
    /\ UNCHANGED ovars
    /\ UNCHANGED gvars

\* One merge writes its next file.
merge_writes ==
    /\ \E m \in 1..Len(merges) :
          /\ merges[m].step < Len(MergeWrittenPaths(merges[m].lecture_id))
          /\ mwritten' = mwritten \cup
                {<<MergeWrittenPaths(merges[m].lecture_id)[merges[m].step + 1], m>>}
          /\ merges' = [merges EXCEPT ![m].step = @ + 1]
    /\ UNCHANGED svars
    /\ UNCHANGED lvars
    /\ UNCHANGED wvars
    /\ UNCHANGED xvars
    /\ UNCHANGED ovars
    /\ UNCHANGED gvars

MergeVolumeNext ==
    \/ start_merges
    \/ merge_writes

(***************************************************************************)
(* The legacy SceneBuilder (src/scene_builder.py): the same graph with its *)
(* own routing functions.  _should_retry has no cap of its own.            *)
(***************************************************************************)
LegacyFinishCap == 3
MaxLegacyIterations == 5

LegacyInitialState ==
    [scene_code |-> << >>, output |-> << >>, error |-> << >>, iterations |-> 0,
     evaluation |-> NoEvaluation]

\* stream.read(): everything the stream held.
stream_read(stream) == SelectSeq(stream, LAMBDA m : m # StreamEnd)

legacy_generate_result(st, sc) ==
    [st EXCEPT !.scene_code = <<sc.imports, "\n\n", sc.scene_code>>,
               !.iterations = st.iterations + 1]

legacy_execute_result(st, res) ==
    LET output == stream_read(res.stdout)
        error == stream_read(res.stderr)
    IN [st EXCEPT !.output = output,
                  !.error = IF error # << >> THEN error ELSE NoneSentinel]

legacy_evaluate_result(st, decision) == [st EXCEPT !.evaluation = decision]

\* return "generate" if state["error"] != "None" else "evaluate"
legacy_should_retry(st) == IF st.error # NoneSentinel THEN "generate" ELSE "evaluate"

\* FINISH or iterations >= 3: "finish", else "generate"
legacy_should_finish(st) ==
    IF st.evaluation = FINISH \/ st.iterations >= LegacyFinishCap
    THEN "finish"
    ELSE "generate"

LegacyInit ==
    /\ lgnode = "generate"
    /\ lgstate = LegacyInitialState

legacy_generate ==
    /\ lgnode = "generate"
    /\ lgstate.iterations < MaxLegacyIterations
    /\ \E sc \in SceneCode : lgstate' = legacy_generate_result(lgstate, sc)
    /\ lgnode' = "execute"
    /\ UNCHANGED <<svars, lvars, wvars, xvars, ovars, mvars>>

legacy_execute ==
    /\ lgnode = "execute"
    /\ \E res \in Renders : lgstate' = legacy_execute_result(lgstate, res)
    /\ lgnode' = legacy_should_retry(lgstate')
    /\ UNCHANGED <<svars, lvars, wvars, xvars, ovars, mvars>>

legacy_evaluate ==
    /\ lgnode = "evaluate"
    /\ \E decision \in Decision : lgstate' = legacy_evaluate_result(lgstate, decision)
    /\ lgnode' = legacy_should_finish(lgstate')
    /\ UNCHANGED <<svars, lvars, wvars, xvars, ovars, mvars>>

\* _finish returns scene_code, output_path and iterations; the graph ends.
legacy_finish ==
    /\ lgnode = "finish"
    /\ lgnode' = "end"
    /\ UNCHANGED lgstate
    /\ UNCHANGED <<svars, lvars, wvars, xvars, ovars, mvars>>

LegacyNext ==
    \/ legacy_generate
    \/ legacy_execute
    \/ legacy_evaluate
    \/ legacy_finish

Init == SceneInit /\ LectureInit /\ VolumeInit /\ MergeVolumeInit /\ LegacyInit

MergeVolumeSpec == Init /\ [][MergeVolumeNext]_vars

LegacySpec == Init /\ [][LegacyNext]_vars

RegenSpec == Init /\ [][RegenNext]_vars

VolumeSpec == Init /\ [][VolumeNext]_vars

LectureSpec == Init /\ [][LectureNext]_vars

NoPlanSpec == Init /\ [][NoPlanNext]_vars

Spec == Init /\ [][SceneNext]_vars


\* The same loop under weak fairness: a node that can run does run.
FairSpec ==
    /\ Init
    /\ [][SceneNext]_vars
    /\ WF_vars(SceneNext)

(***************************************************************************)
(* Properties of the scene loop and of generate_scene.                     *)
(***************************************************************************)
NoMarker == \A i \in 1..Len(markers) : ~markers[i]
LoopDone == node = "END"
InLoop == pc = "loop"

\* C1: the iteration count is between 0 and 5 in every reachable state, and
\* is at most 5 when the loop reaches finish.
C1_IterationsBounded ==
    /\ state.iterations >= 0
    /\ state.iterations <= 5
    /\ (node \in {"finish", "END"} => state.iterations <= 5)

C1_Witness == node = "finish" /\ state.iterations = 5

\* C2: when no call raises, every run of the loop reaches finish, and no run
\* makes more than 6 Generator calls.
C2_Terminates ==
    /\ [](genCalls <= 6)
    /\ <>(LoopDone \/ callFailed)

C2_Witness == LoopDone /\ ~callFailed /\ genCalls = 5

\* C3: if no execute output ever holds the marker, the loop generates exactly
\* 5 times, each generate followed by one execute, then evaluates once, then
\* finishes whatever the Evaluator decided.
C3_NoMarkerFiveGenerations ==
    NoMarker =>
        /\ genCalls <= 5
        /\ execCalls <= genCalls
        /\ genCalls <= execCalls + 1
        /\ (InLoop /\ node = "evaluate" => genCalls = 5 /\ execCalls = 5 /\ evalCalls = 0)
        /\ (evalCalls >= 1 /\ ~callFailed =>
               node \in {"finish", "END"} /\ evalCalls = 1 /\ genCalls = 5)
        /\ (LoopDone => genCalls = 5 /\ execCalls = 5 /\ evalCalls = 1)

C3_Witness ==
    LoopDone /\ NoMarker /\ Len(markers) = 5 /\ state.evaluation = RETRY

\* C4: when the output holds the marker and the Evaluator answers FINISH, the
\* loop goes to finish, and from finish on generate is never called again.
FinishAfterMarker ==
    (InLoop /\ node = "evaluate" /\ pc' = "loop"
        /\ Contains(SuccessMarker, state.output) /\ state'.evaluation = FINISH)
    => (node' = "finish")

NoGenerateAfterFinish ==
    (node \in {"finish", "END"})
    => (node' \in {"finish", "END"} /\ genCalls' = genCalls)

C4_FinishStopsGeneration ==
    [][FinishAfterMarker /\ NoGenerateAfterFinish]_vars

C4_Witness ==
    /\ LoopDone
    /\ state.evaluation = FINISH
    /\ Contains(SuccessMarker, state.output)
    /\ genCalls = 1

\* C5: the loop's result has iterations = the number of generate calls and
\* scene_code = the code of the last generate call; when render 1 fails,
\* render 2 succeeds and the Evaluator answers FINISH, iterations = 2.
C5_ResultIsLastAttempt ==
    LoopDone =>
        /\ state.iterations = genCalls
        /\ state.scene_code = lastGenerated
        /\ (markers = <<FALSE, TRUE>> /\ state.evaluation = FINISH
              => state.iterations = 2 /\ genCalls = 2)

C5_Witness ==
    /\ LoopDone
    /\ markers = <<FALSE, TRUE>>
    /\ state.evaluation = FINISH
    /\ state.iterations = 2
    /\ state.scene_code = lastGenerated

\* C6: after execute the next node is generate iff the output lacks the
\* marker and the iteration count is below 5, and evaluate otherwise; after
\* generate the next node is execute.
AfterExecute ==
    (InLoop /\ node = "execute" /\ node' # "execute" /\ pc' = "loop")
    => (/\ node' \in {"generate", "evaluate"}
        /\ (node' = "generate") <=>
              (~Contains(SuccessMarker, state'.output) /\ state'.iterations < 5))

AfterGenerate ==
    (InLoop /\ node = "generate" /\ pc' = "loop") => (node' = "execute")

C6_ExecuteEdges == [][AfterExecute /\ AfterGenerate]_vars

C6_Witness ==
    /\ InLoop
    /\ node = "evaluate"
    /\ evalCalls = 0
    /\ state.iterations = 5
    /\ ~Contains(SuccessMarker, state.output)

\* C7: after evaluate the next node is finish iff the decision is FINISH or
\* the iteration count is at least 5, and generate otherwise.
AfterEvaluate ==
    (InLoop /\ node = "evaluate" /\ pc' = "loop")
    => (/\ node' \in {"finish", "generate"}
        /\ (node' = "finish") <=>
              (state'.evaluation = FINISH \/ state'.iterations >= 5))

C7_EvaluateEdges == [][AfterEvaluate]_vars

C7_Witness ==
    InLoop /\ node = "finish" /\ state.evaluation = RETRY /\ state.iterations = 5

\* C9: once the loop has finished, the scene's video path holds a file (the
\* placeholder when no render left one) before audio, subtitles and
\* embedding run; embedding is never invoked on a missing video.
AfterFallback == {"audio", "subtitles", "embed", "upload", "update", "returned"}
EmbedInvoked == embedInput # << >>

VideoPresent ==
    /\ (pc \in AfterFallback => files[scene_video_path(SceneId)] # NoFile)
    /\ (EmbedInvoked => embedInput # NoFile)

FallbackStep ==
    (pc = "check_video" /\ files[scene_video_path(SceneId)] = NoFile)
    => (files'[scene_video_path(SceneId)] = Placeholder)

C9_PlaceholderBeforeEmbedding == [](VideoPresent) /\ [][FallbackStep]_vars

C9_Witness == pc = "upload" /\ embedInput = Placeholder

\* C10: a scene whose five renders all failed and for which no call failed
\* ends with persisted status COMPLETED.
Exhausted == Len(markers) = 5 /\ NoMarker

C10_ExhaustedSceneCompleted ==
    (pc \in {"returned", "raised"} /\ Exhausted /\ ~callFailed)
        => scene.status = COMPLETED

\* C12: whatever raises inside generate_scene_function (sandbox creation, a
\* step of the loop, post-processing, the upload and update) is caught by
\* its handler, which sets the persisted status to FAILED and re-raises.
HandlerPositions == {"except", "raised", "handler_raised"}

FailureIsHandled ==
    /\ (callFailed => pc \in HandlerPositions)
    /\ (pc = "raised" => scene.status = FAILED)

HandlerRaises ==
    (pc = "except" /\ pc' # pc) => (pc' \in {"raised", "handler_raised"})

C12_FailureMarksSceneFailed == [](FailureIsHandled) /\ [][HandlerRaises]_vars

C12_Witness ==
    /\ pc = "raised"
    /\ callFailed
    /\ node = "END"
    /\ files[scene_audio_path(SceneId)] # NoFile
    /\ scene.status = FAILED

\* C13: once a Generator or Evaluator call has raised, the loop takes no
\* further generate, execute or evaluate step and never reaches finish; the
\* error is in generate_scene_function's handler.
ModelCallFailed == callFailed /\ node \in {"generate", "evaluate"}

LoopStopped ==
    ModelCallFailed =>
        /\ genCalls' = genCalls
        /\ execCalls' = execCalls
        /\ evalCalls' = evalCalls
        /\ node' = node
        /\ state' = state

C13_ModelFailurePropagates ==
    /\ [](ModelCallFailed => pc \in HandlerPositions)
    /\ [][LoopStopped]_vars

C13_Witness ==
    /\ pc = "raised"
    /\ callFailed
    /\ node = "generate"
    /\ genCalls = 3
    /\ state.iterations = 2

\* C19 as stated: an Evaluation is in the state only after an evaluate step,
\* and a run that exhausted the cap without a successful render finishes
\* with no Evaluator call and no Evaluation.
C19_NoEvaluationWhenExhausted ==
    /\ (state.evaluation # NoEvaluation => evalCalls >= 1)
    /\ (node \in {"finish", "END"} /\ Exhausted
          => evalCalls = 0 /\ state.evaluation = NoEvaluation)

\* C19, amended: an Evaluation is in the state only after an evaluate step;
\* the loop never goes from execute to finish, so every run that reaches
\* finish, a run that exhausted the cap included, has called the Evaluator
\* and carries an Evaluation.
EvaluationOnlyFromEvaluate ==
    /\ (state.evaluation # NoEvaluation => evalCalls >= 1)
    /\ (node \in {"finish", "END"} => evalCalls >= 1 /\ state.evaluation \in Decision)

NoFinishFromExecute ==
    (InLoop /\ node = "execute") => (node' # "finish")

C19_EvaluationBeforeFinish ==
    [](EvaluationOnlyFromEvaluate) /\ [][NoFinishFromExecute]_vars

C19_Witness ==
    /\ LoopDone
    /\ Exhausted
    /\ evalCalls = 1
    /\ state.evaluation = FINISH

\* C20: the iteration counter starts at 0, every generate step adds exactly
\* 1 to it, and no other step changes it.
GenerateStep == InLoop /\ node = "generate" /\ node' = "execute"

CounterStep ==
    IF GenerateStep
    THEN state'.iterations = state.iterations + 1
    ELSE state'.iterations = state.iterations

C20_CounterCountsGenerations ==
    /\ state.iterations = 0
    /\ [][CounterStep]_vars

C20_Witness ==
    /\ LoopDone
    /\ state.iterations = 3
    /\ evalCalls = 2
    /\ execCalls = 3

\* C21: the first Generator call of a run is given the empty previous code,
\* the empty previous error and iteration count 0; the k-th call (k >= 2) is
\* given the code of call k-1, the error stored by execution k-1 ("None"
\* when its stderr was empty) and iteration count k-1.
GeneratorCalled == genCalls' = genCalls + 1

Normalized(stderr) == IF read(stderr) = << >> THEN NoneSentinel ELSE read(stderr)

InputsFromPreviousAttempt ==
    GeneratorCalled =>
        /\ genInput'.iterations = genCalls
        /\ genInput'.previous_scene_code = lastGenerated
        /\ (genCalls = 0 => genInput'.previous_scene_code = << >>
                            /\ genInput'.previous_error = << >>)
        /\ (genCalls >= 1 => genInput'.previous_error = Normalized(render.res.stderr))

C21_GeneratorInputs == [][InputsFromPreviousAttempt]_vars

C21_Witness ==
    /\ genCalls = 3
    /\ genInput.iterations = 2
    /\ genInput.previous_error = NoneSentinel
    /\ genInput.previous_scene_code # << >>

\* C22: the error field is the empty string before the first execute and
\* never after it: it is "None" exactly when the render's stderr was empty,
\* and the stderr text otherwise.
BetweenExecutes == execCalls >= 1 /\ xpc = "write"

C22_ErrorNeverEmptyAfterExecute ==
    /\ (execCalls = 0 => state.error = << >>)
    /\ (execCalls >= 1 => state.error # << >>)
    /\ (BetweenExecutes =>
          /\ (state.error = NoneSentinel) <=> (read(render.res.stderr) = << >>)
          /\ (read(render.res.stderr) # << >>
                => state.error = read(render.res.stderr)))

C22_Witness ==
    /\ execCalls = 2
    /\ xpc = "write"
    /\ state.error = NoneSentinel
    /\ read(render.res.stderr) = << >>

\* C23: lecture_topic, scene_voiceover, scene_description and scene_id keep
\* the values the run was started with, in every state of the run.
TaskFields(st) ==
    [lecture_topic |-> st.lecture_topic, scene_voiceover |-> st.scene_voiceover,
     scene_description |-> st.scene_description, scene_id |-> st.scene_id]

C23_TaskFieldsUnchanged ==
    TaskFields(state) = TaskFields(InitialState("topic", "voiceover", "description", SceneId))

C23_Witness ==
    /\ LoopDone
    /\ genCalls = 4
    /\ evalCalls = 3
    /\ state.scene_description = "description"

\* C24: an execute step writes the code file, then starts the render, then
\* commits the volume, then stores the streams of that render; the commit is
\* not made before the render command has completed.
ExecuteInOrder ==
    /\ (xpc = "write" /\ xpc' # xpc => xpc' = "exec")
    /\ (xpc = "exec" /\ xpc' # xpc => xpc' = "commit")
    /\ (xpc = "commit" /\ xpc' # xpc => xpc' = "read")
    /\ (xpc = "read" /\ xpc' # xpc =>
          xpc' = "write" /\ state'.output = read(render.res.stdout))

CommitAfterRender ==
    (xpc = "commit" /\ xpc' = "read") => (render.status = "done")

C24_ExecuteStepOrder == [][ExecuteInOrder /\ CommitAfterRender]_vars

C29_SandboxTerminated ==
    pc \in {"returned", "raised", "handler_raised"} => sandbox # "running"

\* C30: within one invocation of generate_scene_function the scene's status
\* is written at most once: it leaves PROCESSING for COMPLETED or for FAILED
\* and is not written again; a COMPLETED scene is not marked FAILED.
StatusWrittenOnce == (scene'.status # scene.status) => (scene.status = PROCESSING)

CompletedStays == (scene.status = COMPLETED) => (scene'.status = COMPLETED)

IndexOfPath(path) == SceneRow(path[2]).index

StrictlyAscending(paths) ==
    \A i, j \in 1..Len(paths) : i < j => IndexOfPath(paths[i]) < IndexOfPath(paths[j])

C11_FailedLectureMarkedFailed ==
    lpc = "raised" => lecture.status = FAILED

\* C14: the scenes handed to the merge are exactly the scenes whose task
\* returned; a task that raised does not keep the merge from being called;
\* and when all N tasks returned, N videos are concatenated.
Succeeded == {results[i].scene.id : i \in {j \in 1..Len(results) : results[j].ok}}
MergeCalled == mpc # "idle"
MergedIds == {generated_scenes[i].id : i \in 1..Len(generated_scenes)}

MergeSetIsSucceeded ==
    /\ MergeCalled => (MergedIds = Succeeded
                       /\ Len(generated_scenes) = Cardinality(Succeeded))
    /\ (mpc \in {"concat", "upload", "done"}
          => Len(video_paths) = Cardinality(Succeeded))
    /\ (concatInput # << >> => Len(concatInput) = Cardinality(Succeeded))
    /\ (concatInput # << >> /\ Cardinality(Succeeded) = slides
          => Len(concatInput) = slides)

MergeAlwaysCalled ==
    (lpc = "starmap" /\ lpc' # "starmap") => (lpc' = "merge" /\ mpc' = "collect")

C14_MergeSetIsSucceededScenes ==
    [](MergeSetIsSucceeded) /\ [][MergeAlwaysCalled]_vars

C14_Witness ==
    /\ slides = 3
    /\ Len(results) = 3
    /\ \A i \in 1..3 : results[i].ok
    /\ Len(concatInput) = 3

\* C15: when no scene task returned a scene, the merge raises before any
\* concatenation or upload, the error leaves generate_lecture_function, and
\* the lecture is not marked DRAFT.
ZeroSucceeded == MergeCalled /\ Succeeded = {}

NothingMerged ==
    ZeroSucceeded =>
        /\ mpc \in {"collect", "raised"}
        /\ lpc \in {"merge", "raised"}
        /\ concatInput = << >>
        /\ msandbox = "none"
        /\ lecture.status # DRAFT
        /\ lecture.video_url = NoUrl

ErrorLeavesLecture ==
    (ZeroSucceeded /\ lpc = "merge" /\ lpc' # "merge") => (lpc' = "raised")

C15_ZeroScenesIsFatal == [](NothingMerged) /\ [][ErrorLeavesLecture]_vars

C15_Witness ==
    /\ Len(results) = 2
    /\ ZeroSucceeded
    /\ lpc = "raised"

\* C16: the i-th scene record generate_lecture_function creates has index i,
\* status PROCESSING, version 1 and the description and voiceover of the
\* plan's i-th slide, and all N records exist before any scene task starts.
RowMatchesSlide(row, i) ==
    /\ row.index = i
    /\ row.status = PROCESSING
    /\ row.version = 1
    /\ row.description = Slide(i).description
    /\ row.voiceover = Slide(i).voiceover

ScenesStarted == lpc \in {"starmap", "merge", "done"} \/ pending # {} \/ results # << >>

C16_OneSceneRecordPerSlide ==
    /\ Len(sceneTable) = Len(created)
    /\ \A i \in 1..Len(created) : RowMatchesSlide(created[i], i)
    /\ (lpc = "create" => sceneTable = created)
    /\ (ScenesStarted => Len(created) = slides)

C16_Witness ==
    /\ lpc = "starmap"
    /\ slides = 3
    /\ Cardinality(pending) = 3
    /\ results = << >>

\* C17: the regenerate endpoint adds one row that has the lecture, index,
\* description and voiceover of the scene it was given, that scene's version
\* plus 1 and status PROCESSING; the endpoint and regenerate_scene_function
\* change no row other than the new one.
EndpointStep == Len(regen') = Len(regen) + 1

IsNewVersionOf(new, old) ==
    /\ new.lecture_id = old.lecture_id
    /\ new.index = old.index
    /\ new.description = old.description
    /\ new.voiceover = old.voiceover
    /\ new.version = old.version + 1
    /\ new.status = PROCESSING

EndpointAddsVersion ==
    EndpointStep =>
        /\ \E id \in SceneIds : IsNewVersionOf(regen'[Len(regen')].scene, SceneRow(id))
        /\ regen'[Len(regen')].scene.id \notin SceneIds
        /\ sceneTable' = sceneTable
        /\ \A k \in 1..Len(regen) : regen'[k] = regen[k]

RegenerateStep == Len(regen') = Len(regen) /\ regen' # regen

RegenerateTouchesOwnRow ==
    RegenerateStep =>
        /\ sceneTable' = sceneTable
        /\ \E k \in 1..Len(regen) :
              /\ regen[k].task = "spawned"
              /\ regen'[k].scene.id = regen[k].scene.id
              /\ regen'[k].scene.version = regen[k].scene.version
              /\ regen'[k].scene.index = regen[k].scene.index
              /\ \A j \in (1..Len(regen)) \ {k} : regen'[j] = regen[j]

C17_RegenerateCreatesNewVersion ==
    [][EndpointAddsVersion /\ RegenerateTouchesOwnRow]_vars

C17_Witness ==
    /\ Len(regen) = 1
    /\ regen[1].task = "raised"
    /\ regen[1].scene.version = 2
    /\ regen[1].scene.status = COMPLETED
    /\ sceneTable[regen[1].scene.index].status = PROCESSING

\* C25: the planner is called once; when that call fails it is not called
\* again, no scene record is created, no scene task is started, the merge
\* is not invoked and generate_lecture_function raises.
PlannerFailed == lpc = "raised" /\ lecture.title = NoUrl

NothingStarted ==
    /\ sceneTable = << >>
    /\ created = << >>
    /\ pending = {}
    /\ results = << >>
    /\ mpc = "idle"
    /\ concatInput = << >>

PlannerCalledOnce ==
    /\ (lpc # "plan" => lpc' # "plan")
    /\ (lpc = "plan" /\ lpc' # lpc => lpc' \in {"create", "raised"})
    /\ (lpc = "raised" => lpc' = "raised")

C25_PlannerFailureIsFatal ==
    /\ [](lecture.title = NoUrl => lpc \in {"plan", "raised"})
    /\ [](PlannerFailed => NothingStarted)
    /\ [][PlannerCalledOnce]_vars

C25_Witness ==
    /\ PlannerFailed
    /\ NothingStarted
    /\ slides = 0

\* C27: when the scene generation it started has returned,
\* regenerate_scene_function calls the merge with one scene per index, the
\* one of highest version, sorted by index.
C27_RegenerateMergesLatestVersions ==
    \A k \in 1..Len(regen) :
        (regen[k].task # "spawned" /\ regen[k].scene.status = COMPLETED)
            => regen[k].task = "merged"

\* C34: generate_lecture_function calls the merge once, and only when every
\* scene task it started has ended, with a scene or with an exception.
MergeAfterAllTasks ==
    MergeCalled =>
        /\ pending = {}
        /\ Len(created) = slides
        /\ Len(results) = Len(created)

MergeStartsOnce ==
    /\ (mpc # "idle" => mpc' # "idle")
    /\ (mpc # "collect" /\ mpc' = "collect" => mpc = "idle" /\ lpc = "starmap")
    /\ (lpc = "merge" => lpc' \in {"merge", "done", "raised"})
    /\ (lpc \in {"done", "raised"} => lpc' = lpc)

C34_MergeOnceAfterAllTasks == [](MergeAfterAllTasks) /\ [][MergeStartsOnce]_vars

C34_Witness ==
    /\ mpc = "collect"
    /\ slides = 3
    /\ Len(results) = 3
    /\ \E i \in 1..Len(results) : ~results[i].ok
    /\ \E i \in 1..Len(results) : results[i].ok

RegenerationFailed(k) ==
    /\ regen[k].task = "spawned"
    /\ regen'[k].task # "spawned"
    /\ regen'[k].scene.status = FAILED

FailedRegenerationLeavesLecture ==
    \A k \in 1..Len(regen) :
        RegenerationFailed(k) =>
            /\ regen'[k].task = "raised"
            /\ lecture' = lecture
            /\ mpc' = mpc
            /\ concatInput' = concatInput

FailedRegenerationNeverMerges ==
    \A k \in 1..Len(regen) :
        regen[k].scene.status = FAILED => regen[k].task = "raised"

C36_FailedRegenerationNoMerge ==
    [](FailedRegenerationNeverMerges) /\ [][FailedRegenerationLeavesLecture]_vars

C36_Witness ==
    \E k \in 1..Len(regen) :
        /\ regen[k].task = "raised"
        /\ regen[k].scene.status = FAILED
        /\ regen[k].scene.version = 2

BothRegenerated ==
    /\ Len(regen) = 2
    /\ regen[1].scene.index # regen[2].scene.index
    /\ \A k \in 1..2 : regen[k].task # "spawned" /\ regen[k].scene.status = COMPLETED

C31_ConcurrentRegenerationsBothMerged ==
    BothRegenerated =>
        /\ lecture.video_url # NoUrl
        /\ \A k \in 1..2 :
              \E i \in 1..Len(concatInput) :
                  concatInput[i] = lecture_full_path(regen[k].scene.id)

\* C33: no two scene records of the lecture have the same index and the
\* same version, whatever regenerate requests were made.
C33_IndexVersionUnique ==
    \A a, b \in SceneIds :
        (SceneRow(a).index = SceneRow(b).index /\ SceneRow(a).version = SceneRow(b).version)
            => a = b

(***************************************************************************)
(* Properties of the shared volume.                                        *)
(***************************************************************************)
\* C18: two concurrent runs for distinct scene ids never write the same
\* path: every path a run writes carries that run's own scene id.
NoSharedPath ==
    \A w1, w2 \in written : w1[1] = w2[1] => w1[2] = w2[2]

PathsCarryOwnId ==
    \A w \in written : w[1][2] = runs[w[2]].scene_id

C18_RunsWriteDisjointPaths == NoSharedPath /\ PathsCarryOwnId

C18_Witness ==
    /\ Len(runs) = 2
    /\ runs[1].step = 6
    /\ runs[2].step = 6
    /\ Cardinality(written) = 12

\* C32: two concurrent merges for different lectures write no path in
\* common: the concat list, the merged video and the last-frame image each
\* carry the lecture id.
C32_MergesWriteDisjointPaths ==
    \A w1, w2 \in mwritten : w1[1] = w2[1] => w1[2] = w2[2]

(***************************************************************************)
(* Properties of the legacy loop.                                          *)
(***************************************************************************)
\* C37: the legacy loop reaches finish with an iteration count of at most 3,
\* whatever the renders print and the Evaluator decides.
C37_LegacyFinishesWithinThree ==
    (lgnode \in {"finish", "end"}) => (lgstate.iterations <= LegacyFinishCap)

====
